---------------------------- MODULE Spec2Model ----------------------------
(***************************************************************************)
(* Model of the chess room server of src/server.js: the rooms map, the     *)
(* connection handler (role assignment), the message handler (RESET and    *)
(* MOVE with its legality test, move execution and end-of-game scan) and   *)
(* the close handler.                                                      *)
(*                                                                         *)
(* A piece is the pair <<colour, kind>> (the two characters of the         *)
(* source's strings "wP", "bK", ...); an empty square (null / undefined)   *)
(* is the empty tuple.  A board is a function from array indices to        *)
(* pieces; squares are the indices 0..63, row = index div 8 (row 0 is      *)
(* Black's back rank), column = index mod 8.                               *)
(***************************************************************************)
EXTENDS Integers, Sequences, FiniteSets, TLC

VARIABLES
    rooms,      \* the Map `rooms`: room id -> room object
    conns,      \* open connections: id -> the closure's roomId, myRole, myColor
    hist,       \* history, per room: what the handlers did to it (not program state)
    closes,     \* history: number of connections closed so far
    hung        \* a handler is in a loop that never ends: the event loop is blocked

vars == <<rooms, conns, hist, closes, hung>>

-----------------------------------------------------------------------------
(* Bounds of the model *)

MaxConns == 3
MaxPly == 16
MaxResets == 1
MaxCloses == 1
FiftyMovePlies == 100

Conns == 1..MaxConns
RoomIds == {"default"}

-----------------------------------------------------------------------------
(* Board model *)

Null == <<>>

Truthy(p) == p # Null

Squares == 0..63

Get(board, i) == IF i \in DOMAIN board THEN board[i] ELSE Null

Abs(x) == IF x < 0 THEN -x ELSE x

\* Math.floor(i / 8)
Row(i) == i \div 8

\* JavaScript's i % 8 (the sign of the dividend)
Col(i) == IF i >= 0 THEN i % 8 ELSE -((-i) % 8)

BackRank == <<"R", "N", "B", "Q", "K", "B", "N", "R">>

initialChessBoard ==
    [i \in Squares |->
        IF i < 8 THEN <<"b", BackRank[i + 1]>>
        ELSE IF i < 16 THEN <<"b", "P">>
        ELSE IF i < 48 THEN Null
        ELSE IF i < 56 THEN <<"w", "P">>
        ELSE <<"w", BackRank[i - 55]>>]

\* [...board]: the array part of the board, holes read as undefined
ArrayLength(board) ==
    LET keys == {k \in DOMAIN board : k >= 0}
    IN  IF keys = {} THEN 0 ELSE 1 + CHOOSE k \in keys : \A j \in keys : j <= k

Spread(board) == [i \in 0..(ArrayLength(board) - 1) |-> Get(board, i)]

\* board with board[i] = p assigned (an index past the end lengthens the array)
Assign(board, i, p) ==
    [k \in DOMAIN board \cup {i} |-> IF k = i THEN p ELSE board[k]]

simulateMove(board, from, to) ==
    LET newBoard == Spread(board)
    IN  Assign(Assign(newBoard, to, Get(newBoard, from)), from, Null)

RECURSIVE PathWalk(_, _, _, _, _, _, _)
PathWalk(r, c, rStep, cStep, toRow, toCol, board) ==
    IF r = toRow /\ c = toCol THEN TRUE
    ELSE IF Truthy(Get(board, r * 8 + c)) THEN FALSE
    ELSE PathWalk(r + rStep, c + cStep, rStep, cStep, toRow, toCol, board)

isPathClear(from, to, board) ==
    LET fromRow == Row(from)
        fromCol == Col(from)
        toRow == Row(to)
        toCol == Col(to)
        rStep == IF toRow = fromRow THEN 0 ELSE IF toRow > fromRow THEN 1 ELSE -1
        cStep == IF toCol = fromCol THEN 0 ELSE IF toCol > fromCol THEN 1 ELSE -1
    IN  PathWalk(fromRow + rStep, fromCol + cStep, rStep, cStep, toRow, toCol, board)

\* from and to on the same rank, file or diagonal
Aligned(from, to) ==
    \/ Row(from) = Row(to)
    \/ Col(from) = Col(to)
    \/ Abs(Row(to) - Row(from)) = Abs(Col(to) - Col(from))

\* the while loop of isPathClear comes to an end: it reaches the destination
\* or an occupied square.  The walk is followed until the destination lies
\* behind it and no occupied index of the array lies ahead of it.
RECURSIVE PathStops(_, _, _, _, _, _, _)
PathStops(r, c, rStep, cStep, toRow, toCol, board) ==
    LET idx == r * 8 + c
        d == 8 * rStep + cStep
        passed == \/ rStep # 0 /\ (toRow - r) * rStep < 0
                  \/ cStep # 0 /\ (toCol - c) * cStep < 0
        ahead == \E k \in DOMAIN board : Truthy(board[k]) /\ (k - idx) * d >= 0
    IN  IF r = toRow /\ c = toCol THEN TRUE
        ELSE IF Truthy(Get(board, idx)) THEN TRUE
        ELSE IF passed /\ ~ahead THEN FALSE
        ELSE PathStops(r + rStep, c + cStep, rStep, cStep, toRow, toCol, board)

PathEnds(from, to, board) ==
    LET fromRow == Row(from)
        fromCol == Col(from)
        toRow == Row(to)
        toCol == Col(to)
        rStep == IF toRow = fromRow THEN 0 ELSE IF toRow > fromRow THEN 1 ELSE -1
        cStep == IF toCol = fromCol THEN 0 ELSE IF toCol > fromCol THEN 1 ELSE -1
    IN  PathStops(fromRow + rStep, fromCol + cStep, rStep, cStep, toRow, toCol, board)

-----------------------------------------------------------------------------
(* Legality engine *)

Enemy(color) == IF color = "w" THEN "b" ELSE "w"

\* board.indexOf(piece): the first index holding the piece, -1 if none
IndexOf(board, piece) ==
    LET at == {i \in DOMAIN board : i >= 0 /\ board[i] = piece}
    IN  IF at = {} THEN -1 ELSE CHOOSE i \in at : \A j \in at : i <= j

RECURSIVE isMoveLegal(_, _, _, _, _)
RECURSIVE isKingInCheck(_, _, _)

isMoveLegal(from, to, board, playerColor, state) ==
    LET piece == Get(board, from)
        target == Get(board, to)
        fromRow == Row(from)
        fromCol == Col(from)
        toRow == Row(to)
        toCol == Col(to)
        rowDiff == Abs(toRow - fromRow)
        colDiff == Abs(toCol - fromCol)
        dir == IF playerColor = "w" THEN -1 ELSE 1
        rookIdx == IF toCol > fromCol THEN from + 3 ELSE from - 4
    IN  IF ~Truthy(piece) \/ piece[1] # playerColor THEN FALSE
        ELSE IF Truthy(target) /\ target[1] = playerColor THEN FALSE
        ELSE CASE piece[2] = "P" ->
                    IF fromCol = toCol /\ ~Truthy(target)
                    THEN \/ toRow = fromRow + dir
                         \/ /\ fromRow = (IF playerColor = "w" THEN 6 ELSE 1)
                            /\ toRow = fromRow + 2 * dir
                            /\ ~Truthy(Get(board, from + 8 * dir))
                    ELSE /\ colDiff = 1
                         /\ toRow = fromRow + dir
                         /\ (Truthy(target) \/ state.enPassantTarget = to)
               [] piece[2] = "R" ->
                    (fromRow = toRow \/ fromCol = toCol) /\ isPathClear(from, to, board)
               [] piece[2] = "B" ->
                    rowDiff = colDiff /\ isPathClear(from, to, board)
               [] piece[2] = "Q" ->
                    (rowDiff = colDiff \/ fromRow = toRow \/ fromCol = toCol)
                        /\ isPathClear(from, to, board)
               [] piece[2] = "N" ->
                    (rowDiff = 2 /\ colDiff = 1) \/ (rowDiff = 1 /\ colDiff = 2)
               [] piece[2] = "K" ->
                    IF rowDiff <= 1 /\ colDiff <= 1 THEN TRUE
                    ELSE /\ rowDiff = 0
                         /\ colDiff = 2
                         /\ from \notin state.movedPieces
                         /\ Truthy(Get(board, rookIdx))
                         /\ rookIdx \notin state.movedPieces
                         /\ isPathClear(from, rookIdx, board)
                         /\ ~isKingInCheck(board, playerColor, state)
               [] OTHER -> FALSE

isKingInCheck(board, color, state) ==
    LET kingPos == IndexOf(board, <<color, "K">>)
        enemyColor == Enemy(color)
    IN  IF kingPos = -1 THEN FALSE
        ELSE \E i \in Squares :
                /\ Truthy(Get(board, i))
                /\ Get(board, i)[1] = enemyColor
                /\ isMoveLegal(i, kingPos, board, enemyColor, state)

hasLegalEscapes(board, color, state) ==
    \E i \in Squares :
        /\ Truthy(Get(board, i))
        /\ Get(board, i)[1] = color
        /\ \E j \in Squares :
              /\ isMoveLegal(i, j, board, color, state)
              /\ ~isKingInCheck(simulateMove(board, i, j), color, state)

-----------------------------------------------------------------------------------------------------------------------------------------------------
(* What the legality engine does on its way, in the order of the code.     *)
(* A fault is one of                                                       *)
(*   "stray"  a call of isPathClear with from and to not aligned           *)
(*   "hang"   a call of isPathClear whose loop never ends                  *)
(* The only call that is not guarded by an alignment test is the one of    *)
(* the castling branch, which only a king on a square not in movedPieces   *)
(* reaches.  xFault(fault, ...) says that the evaluation of x(...) makes   *)
(* such a call; the values of isPathClear, isMoveLegal and isKingInCheck   *)
(* are used only where the evaluation does not hang.                       *)

CallFault(fault, from, to, board) ==
    IF fault = "stray" THEN ~Aligned(from, to) ELSE ~PathEnds(from, to, board)

RECURSIVE isMoveLegalFault(_, _, _, _, _, _)
RECURSIVE isKingInCheckFault(_, _, _, _)

isMoveLegalFault(fault, from, to, board, playerColor, state) ==
    LET piece == Get(board, from)
        target == Get(board, to)
        fromCol == Col(from)
        toCol == Col(to)
        rowDiff == Abs(Row(to) - Row(from))
        colDiff == Abs(toCol - fromCol)
        rookIdx == IF toCol > fromCol THEN from + 3 ELSE from - 4
    IN  /\ Truthy(piece)
        /\ piece[1] = playerColor
        /\ ~(Truthy(target) /\ target[1] = playerColor)
        /\ piece[2] = "K"
        /\ ~(rowDiff <= 1 /\ colDiff <= 1)
        /\ rowDiff = 0
        /\ colDiff = 2
        /\ from \notin state.movedPieces
        /\ Truthy(Get(board, rookIdx))
        /\ rookIdx \notin state.movedPieces
        /\ \/ CallFault(fault, from, rookIdx, board)
           \/ /\ PathEnds(from, rookIdx, board)
              /\ isPathClear(from, rookIdx, board)
              /\ isKingInCheckFault(fault, board, playerColor, state)

\* the kings of `color` that stand on squares not in movedPieces
KingsAtHome(board, color, state) ==
    {k \in Squares : Get(board, k) = <<color, "K">> /\ k \notin state.movedPieces}

\* the scan of isKingInCheck makes a faulty call: it gets as far as an
\* enemy king i (no earlier enemy piece hangs the scan or makes it return)
\* and the test of i makes one
isKingInCheckFault(fault, board, color, state) ==
    LET kingPos == IndexOf(board, <<color, "K">>)
        enemyColor == Enemy(color)
    IN  /\ kingPos # -1
        /\ \E i \in KingsAtHome(board, enemyColor, state) :
              /\ isMoveLegalFault(fault, i, kingPos, board, enemyColor, state)
              /\ \A k \in 0..(i - 1) :
                    (Truthy(Get(board, k)) /\ Get(board, k)[1] = enemyColor)
                        => /\ ~isMoveLegalFault("hang", k, kingPos, board, enemyColor, state)
                           /\ ~isMoveLegal(k, kingPos, board, enemyColor, state)

\* the step (i, j) of the two loops of hasLegalEscapes hangs
EscapeStepHangs(i, j, board, color, state) ==
    \/ isMoveLegalFault("hang", i, j, board, color, state)
    \/ /\ isMoveLegal(i, j, board, color, state)
       /\ isKingInCheckFault("hang", simulateMove(board, i, j), color, state)

\* the steps (i, j) of the two loops on which a fault can happen: those of a
\* king of `color` at home (the castling branch of isMoveLegal(i, j)) and
\* those after which the king of `color` is two files from an enemy king at
\* home, on its rank (the castling branch in the scan of isKingInCheck)
FaultSteps(board, color, state) ==
    LET kings == {k \in Squares : Get(board, k) = <<color, "K">>}
        foes == KingsAtHome(board, Enemy(color), state)
        Faces(k) == \E e \in foes : Row(e) = Row(k) /\ Abs(Col(e) - Col(k)) = 2
    IN  (KingsAtHome(board, color, state) \X Squares)
            \cup (kings \X {j \in Squares : Faces(j)})
            \cup (IF \E k \in kings : Faces(k)
                  THEN {i \in Squares : Truthy(Get(board, i)) /\ Get(board, i)[1] = color}
                            \X Squares
                  ELSE {})

hasLegalEscapesFault(fault, board, color, state) ==
    \E step \in FaultSteps(board, color, state) :
        LET i == step[1]
            j == step[2]
        IN  /\ \/ isMoveLegalFault(fault, i, j, board, color, state)
               \/ /\ ~isMoveLegalFault("hang", i, j, board, color, state)
                  /\ isMoveLegal(i, j, board, color, state)
                  /\ isKingInCheckFault(fault, simulateMove(board, i, j), color, state)
            /\ \A i2 \in 0..i, j2 \in Squares :
                  (/\ i2 < i \/ j2 < j
                   /\ Truthy(Get(board, i2))
                   /\ Get(board, i2)[1] = color)
                      => /\ ~EscapeStepHangs(i2, j2, board, color, state)
                         /\ ~(/\ isMoveLegal(i2, j2, board, color, state)
                              /\ ~isKingInCheck(simulateMove(board, i2, j2), color, state))

-----------------------------------------------------------------------------
(* Rooms and the message handler *)

NoWinner == "null"

\* the room object built by the connection handler
NewRoom(hubbyIsWhite) ==
    [board |-> initialChessBoard,
     clients |-> <<>>,
     turn |-> "w",
     movedPieces |-> {},
     enPassantTarget |-> -1,
     winner |-> NoWinner,
     isDraw |-> FALSE,
     roles |-> [Hubby |-> IF hubbyIsWhite THEN "w" ELSE "b",
                Wiifu |-> IF hubbyIsWhite THEN "b" ELSE "w"]]

\* room.clients.size === 0 ? "Hubby" : (room.clients.size === 1 ? "Wiifu" : "Observer")
RoleFor(room) ==
    IF Cardinality(DOMAIN room.clients) = 0 THEN "Hubby"
    ELSE IF Cardinality(DOMAIN room.clients) = 1 THEN "Wiifu"
    ELSE "Observer"

\* room.roles[myRole] || 'observer'
ColorFor(room, myRole) ==
    IF myRole \in DOMAIN room.roles THEN room.roles[myRole] ELSE "observer"

\* OnReset without room.movedPieces.clear()
OnReset_KeepsMoved(room) ==
    [room EXCEPT !.board = initialChessBoard,
                 !.turn = "w",
                 !.enPassantTarget = -1,
                 !.winner = NoWinner,
                 !.isDraw = FALSE]

\* the RESET branch
OnReset(room) ==
    [room EXCEPT !.board = initialChessBoard,
                 !.turn = "w",
                 !.movedPieces = {},
                 !.enPassantTarget = -1,
                 !.winner = NoWinner,
                 !.isDraw = FALSE]

\* MoveAccepted without `if (room.winner || room.isDraw) return`
MoveAccepted_NoTerminalGuard(room, myColor, from, to) ==
    /\ room.turn = myColor
    /\ isMoveLegal(from, to, room.board, myColor, room)

\* MoveAccepted without `if (room.turn !== myColor) return`
MoveAccepted_NoTurnGuard(room, myColor, from, to) ==
    /\ ~(room.winner # NoWinner \/ room.isDraw)
    /\ isMoveLegal(from, to, room.board, myColor, room)

\* the guards of the MOVE branch: the message is acted upon
MoveAccepted(room, myColor, from, to) ==
    /\ ~(room.winner # NoWinner \/ room.isDraw)
    /\ room.turn = myColor
    /\ isMoveLegal(from, to, room.board, myColor, room)

\* MoveBoard that takes the en passant victim from the wrong side of the
\* destination (the signs of line 158 exchanged)
MoveBoard_WrongRank(room, myColor, from, to) ==
    LET piece == Get(room.board, from)
        tempBoard == simulateMove(room.board, from, to)
        afterEnPassant ==
            IF piece[2] = "P" /\ to = room.enPassantTarget
            THEN Assign(tempBoard, to + (IF myColor = "w" THEN -8 ELSE 8), Null)
            ELSE tempBoard
        isKingside == to > from
        rFrom == IF isKingside THEN from + 3 ELSE from - 4
        rTo == IF isKingside THEN from + 1 ELSE from - 1
        afterCastle ==
            IF piece[2] = "K" /\ Abs(to - from) = 2
            THEN Assign(Assign(afterEnPassant, rTo, Get(afterEnPassant, rFrom)), rFrom, Null)
            ELSE afterEnPassant
    IN  IF piece[2] = "P" /\ (Row(to) = 0 \/ Row(to) = 7)
        THEN Assign(afterCastle, to, <<myColor, "Q">>)
        ELSE afterCastle

\* "1. Special Moves Execution": the board the accepted move produces
MoveBoard(room, myColor, from, to) ==
    LET piece == Get(room.board, from)
        tempBoard == simulateMove(room.board, from, to)
        afterEnPassant ==
            IF piece[2] = "P" /\ to = room.enPassantTarget
            THEN Assign(tempBoard, to + (IF myColor = "w" THEN 8 ELSE -8), Null)
            ELSE tempBoard
        isKingside == to > from
        rFrom == IF isKingside THEN from + 3 ELSE from - 4
        rTo == IF isKingside THEN from + 1 ELSE from - 1
        afterCastle ==
            IF piece[2] = "K" /\ Abs(to - from) = 2
            THEN Assign(Assign(afterEnPassant, rTo, Get(afterEnPassant, rFrom)), rFrom, Null)
            ELSE afterEnPassant
    IN  IF piece[2] = "P" /\ (Row(to) = 0 \/ Row(to) = 7)
        THEN Assign(afterCastle, to, <<myColor, "Q">>)
        ELSE afterCastle

\* room.movedPieces after the accepted move
MoveMoved(room, from, to) ==
    LET piece == Get(room.board, from)
        rFrom == IF to > from THEN from + 3 ELSE from - 4
    IN  room.movedPieces
            \cup (IF piece[2] = "K" /\ Abs(to - from) = 2 THEN {rFrom} ELSE {})
            \cup {from}

\* MoveEnPassantTarget that keeps the old target after a move that sets none
MoveEnPassantTarget_Kept(room, from, to) ==
    IF Get(room.board, from)[2] = "P" /\ Abs(to - from) = 16
    THEN (from + to) \div 2
    ELSE room.enPassantTarget

\* MoveEnPassantTarget that takes the pawn's destination for the target
MoveEnPassantTarget_Dest(room, from, to) ==
    IF Get(room.board, from)[2] = "P" /\ Abs(to - from) = 16
    THEN to
    ELSE -1

\* room.enPassantTarget after the accepted move
MoveEnPassantTarget(room, from, to) ==
    IF Get(room.board, from)[2] = "P" /\ Abs(to - from) = 16
    THEN (from + to) \div 2
    ELSE -1

\* Commit without the turn swap
Commit_NoTurnSwap(room, myColor, from, to) ==
    [room EXCEPT !.board = MoveBoard(room, myColor, from, to),
                 !.movedPieces = MoveMoved(room, from, to),
                 !.enPassantTarget = MoveEnPassantTarget(room, from, to)]

\* the room as committed by the accepted move, before the end-of-game scan
Commit(room, myColor, from, to) ==
    [room EXCEPT !.board = MoveBoard(room, myColor, from, to),
                 !.movedPieces = MoveMoved(room, from, to),
                 !.enPassantTarget = MoveEnPassantTarget(room, from, to),
                 !.turn = IF room.turn = "w" THEN "b" ELSE "w"]

\* "2. FORCE CHECKMATE DETECTION"
Classify(room, myRole) ==
    LET whiteInCheck == isKingInCheck(room.board, "w", room)
        blackInCheck == isKingInCheck(room.board, "b", room)
        canOpponentEscape == hasLegalEscapes(room.board, room.turn, room)
        currentKingInCheck == IF room.turn = "w" THEN whiteInCheck ELSE blackInCheck
    IN  IF ~canOpponentEscape
        THEN IF currentKingInCheck
             THEN [room EXCEPT !.winner = myRole]
             ELSE [room EXCEPT !.isDraw = TRUE]
        ELSE room

\* OnMove that marks the origin square as moved before it tests the move
OnMove_MarksFirst(room, myRole, myColor, from, to) ==
    IF MoveAccepted(room, myColor, from, to)
    THEN Classify(Commit(room, myColor, from, to), myRole)
    ELSE [room EXCEPT !.movedPieces = room.movedPieces \cup {from}]

\* the MOVE branch of the message handler: the room after the message
OnMove(room, myRole, myColor, from, to) ==
    IF MoveAccepted(room, myColor, from, to)
    THEN Classify(Commit(room, myColor, from, to), myRole)
    ELSE room

\* the three scans after the commit make a faulty call
ClassifyFault(fault, room) ==
    \/ isKingInCheckFault(fault, room.board, "w", room)
    \/ /\ ~isKingInCheckFault("hang", room.board, "w", room)
       /\ \/ isKingInCheckFault(fault, room.board, "b", room)
          \/ /\ ~isKingInCheckFault("hang", room.board, "b", room)
             /\ hasLegalEscapesFault(fault, room.board, room.turn, room)

\* the two guards that come before the legality test
MoveTested(room, myColor) ==
    /\ ~(room.winner # NoWinner \/ room.isDraw)
    /\ room.turn = myColor

\* the legality test of the MOVE branch makes a faulty call
TestFault(fault, room, myColor, from, to) ==
    /\ MoveTested(room, myColor)
    /\ isMoveLegalFault(fault, from, to, room.board, myColor, room)

\* the MOVE branch makes a faulty call, in the test or after the commit
OnMoveFault(fault, room, myColor, from, to) ==
    \/ TestFault(fault, room, myColor, from, to)
    \/ /\ ~TestFault("hang", room, myColor, from, to)
       /\ MoveAccepted(room, myColor, from, to)
       /\ ClassifyFault(fault, Commit(room, myColor, from, to))

\* the room when the MOVE branch hangs: as it was if the legality test
\* hangs, as committed if a scan after the commit hangs
OnMoveHung(room, myColor, from, to) ==
    IF TestFault("hang", room, myColor, from, to)
    THEN room
    ELSE Commit(room, myColor, from, to)

-----------------------------------------------------------------------------
(* History kept beside each room (not program state):                      *)
(*   ply       accepted moves since the room was created or reset          *)
(*   resets    RESET messages handled since the room was created           *)
(*   rejected  a MOVE was handled and not accepted since the last accepted *)
(*             move, reset or creation                                     *)
(*   lost      the castling rights <<colour, wing>> given up so far in the *)
(*             game by the rules of chess                                  *)
(*   last      the last accepted move, with the room as it was before it   *)
(*   clock     accepted moves since the last pawn move or capture          *)
(*   stray     isPathClear was called with squares that are not aligned    *)
(*   positions the positions of the game so far, the start included        *)
(*             (recorded only where the handler is followed with `keep`)   *)

NoMove == [ply |-> 0]

\* a MOVE message that names no promotion kind
NoPromotion == "none"

Wings == {"w", "b"} \X {"king", "queen"}

\* a position as the rules of chess compare positions: board, side to move,
\* castling rights and en-passant target
Position(game, lost) ==
    [board |-> game.board,
     turn |-> game.turn,
     rights |-> Wings \ lost,
     enPassantTarget |-> game.enPassantTarget]

StartPosition ==
    [board |-> initialChessBoard, turn |-> "w", rights |-> Wings, enPassantTarget |-> -1]

NewHist ==
    [ply |-> 0, resets |-> 0, rejected |-> FALSE, lost |-> {}, last |-> NoMove,
     clock |-> 0, stray |-> FALSE, positions |-> <<StartPosition>>]

RookHome(color, wing) ==
    IF color = "w" THEN (IF wing = "king" THEN 63 ELSE 56)
    ELSE (IF wing = "king" THEN 7 ELSE 0)

\* a king's move gives up both rights; a rook leaving its corner, or being
\* captured on it, gives up that wing's
LostBy(room, from, to) ==
    LET piece == Get(room.board, from)
        target == Get(room.board, to)
    IN  {w \in Wings :
            \/ piece = <<w[1], "K">>
            \/ from = RookHome(w[1], w[2]) /\ piece = <<w[1], "R">>
            \/ to = RookHome(w[1], w[2]) /\ target = <<w[1], "R">>}

\* the square a pawn's two-square advance passes over, -1 for any other move
DoubleStep(room, from, to) ==
    IF Get(room.board, from)[2] = "P" /\ Abs(Row(to) - Row(from)) = 2 /\ Col(to) = Col(from)
    THEN Row(from) * 8 + Col(from) + 4 * (Row(to) - Row(from))
    ELSE -1

\* the game state of a room: the room without its connections
GameOf(room) ==
    [board |-> room.board,
     turn |-> room.turn,
     movedPieces |-> room.movedPieces,
     enPassantTarget |-> room.enPassantTarget,
     winner |-> room.winner,
     isDraw |-> room.isDraw]

\* the record of an accepted move, taken from the room before it
MoveRecord(room, h, myRole, myColor, from, to, promotion) ==
    [ply |-> h.ply + 1,
     promotion |-> promotion,
     role |-> myRole,
     color |-> myColor,
     from |-> from,
     to |-> to,
     piece |-> Get(room.board, from),
     target |-> Get(room.board, to),
     before |-> GameOf(room),
     lostBefore |-> h.lost,
     double |-> DoubleStep(room, from, to),
     prevDouble |-> IF h.ply = 0 THEN -1 ELSE h.last.double]

\* the half-move clock of the rules of chess after the accepted move
ClockAfter(room, h, from, to) ==
    IF Get(room.board, from)[2] = "P" \/ Truthy(Get(room.board, to))
    THEN 0
    ELSE h.clock + 1

HistAfterMove(room, h, myRole, myColor, from, to, promotion, keep) ==
    IF MoveAccepted(room, myColor, from, to)
    THEN [h EXCEPT !.ply = h.ply + 1,
                   !.rejected = FALSE,
                   !.lost = h.lost \cup LostBy(room, from, to),
                   !.clock = ClockAfter(room, h, from, to),
                   !.positions =
                        IF keep
                        THEN Append(h.positions,
                                    Position(OnMove(room, myRole, myColor, from, to),
                                             h.lost \cup LostBy(room, from, to)))
                        ELSE h.positions,
                   !.last = MoveRecord(room, h, myRole, myColor, from, to, promotion)]
    ELSE [h EXCEPT !.rejected = TRUE]

-----------------------------------------------------------------------------
(* State machine *)

Init ==
    /\ rooms = <<>>
    /\ conns = <<>>
    /\ hist = <<>>
    /\ closes = 0
    /\ hung = FALSE

Put(f, k, v) == [x \in DOMAIN f \cup {k} |-> IF x = k THEN v ELSE f[x]]

Drop(f, k) == [x \in DOMAIN f \ {k} |-> f[x]]

\* connection ids are names only: a new connection takes the smallest free one
FreeConn(c) == c \notin DOMAIN conns /\ \A d \in Conns : d < c => d \in DOMAIN conns

\* wss.on('connection')
Connect(c, roomId, hubbyIsWhite) ==
    /\ ~hung
    /\ FreeConn(c)
    /\ (roomId \in DOMAIN rooms) => hubbyIsWhite
    /\ LET room == IF roomId \in DOMAIN rooms THEN rooms[roomId] ELSE NewRoom(hubbyIsWhite)
           myRole == RoleFor(room)
           myColor == ColorFor(room, myRole)
       IN  /\ rooms' = Put(rooms, roomId, [room EXCEPT !.clients = Put(room.clients, c, myRole)])
           /\ conns' = Put(conns, c, [roomId |-> roomId, myRole |-> myRole, myColor |-> myColor])
           /\ hist' = IF roomId \in DOMAIN rooms THEN hist ELSE Put(hist, roomId, NewHist)
    /\ UNCHANGED <<closes, hung>>

\* ws.on('close')
Close(c) ==
    /\ ~hung
    /\ c \in DOMAIN conns
    /\ closes < MaxCloses
    /\ LET roomId == conns[c].roomId
           room == rooms[roomId]
           clients == Drop(room.clients, c)
       IN  IF DOMAIN clients = {}
           THEN /\ rooms' = Drop(rooms, roomId)
                /\ hist' = Drop(hist, roomId)
           ELSE /\ rooms' = [rooms EXCEPT ![roomId].clients = clients]
                /\ hist' = hist
    /\ conns' = Drop(conns, c)
    /\ closes' = closes + 1
    /\ UNCHANGED hung

\* Reset with the RESET of one room applied to the game of every room
Reset_AllRooms(c) ==
    /\ ~hung
    /\ c \in DOMAIN conns
    /\ LET roomId == conns[c].roomId
           h == hist[roomId]
       IN  /\ h.resets < MaxResets
           /\ rooms' = [r \in DOMAIN rooms |-> OnReset(rooms[r])]
           /\ hist' = [hist EXCEPT ![roomId] = [NewHist EXCEPT !.resets = h.resets + 1]]
    /\ UNCHANGED <<conns, closes, hung>>

\* ws.on('message') with msg.type === 'RESET'
Reset(c) ==
    /\ ~hung
    /\ c \in DOMAIN conns
    /\ LET roomId == conns[c].roomId
           h == hist[roomId]
       IN  /\ h.resets < MaxResets
           /\ rooms' = [rooms EXCEPT ![roomId] = OnReset(rooms[roomId])]
           /\ hist' = [hist EXCEPT ![roomId] = [NewHist EXCEPT !.resets = h.resets + 1]]
    /\ UNCHANGED <<conns, closes, hung>>

\* ws.on('message') with msg.type === 'MOVE': the message {from, to} and, if
\* the client names one, a promotion kind (a field the handler never reads)
HandleAs(c, from, to, promotion, keep) ==
    /\ ~hung
    /\ c \in DOMAIN conns
    /\ LET roomId == conns[c].roomId
           myRole == conns[c].myRole
           myColor == conns[c].myColor
           room == rooms[roomId]
           h == hist[roomId]
           stray == h.stray \/ OnMoveFault("stray", room, myColor, from, to)
       IN  IF OnMoveFault("hang", room, myColor, from, to)
           THEN /\ rooms' = [rooms EXCEPT ![roomId] = OnMoveHung(room, myColor, from, to)]
                /\ hist' = [hist EXCEPT ![roomId].stray = TRUE]
                /\ hung' = TRUE
           ELSE /\ rooms' = [rooms EXCEPT ![roomId] = OnMove(room, myRole, myColor, from, to)]
                /\ hist' = [hist EXCEPT ![roomId] =
                               [HistAfterMove(room, h, myRole, myColor, from, to, promotion, keep)
                                    EXCEPT !.stray = stray]]
                /\ hung' = FALSE
    /\ UNCHANGED <<conns, closes>>

Handle(c, from, to, promotion) == HandleAs(c, from, to, promotion, FALSE)

\* a MOVE message without promotion kind, in a game of at most MaxPly moves
Move(c, from, to) ==
    /\ c \in DOMAIN conns
    /\ hist[conns[c].roomId].ply < MaxPly
    /\ Handle(c, from, to, NoPromotion)

\* a MOVE message that names a promotion kind (or none)
Promote(c, from, to, promotion) ==
    /\ c \in DOMAIN conns
    /\ hist[conns[c].roomId].ply < MaxPly
    /\ Handle(c, from, to, promotion)

\* a MOVE message of a game that follows the script S: S[p] is the set of
\* the <<from, to>> sent when p - 1 moves have been accepted
Follow(c, S, keep) ==
    /\ c \in DOMAIN conns
    /\ LET p == hist[conns[c].roomId].ply
       IN  /\ p < Len(S)
           /\ \E m \in S[p + 1] : HandleAs(c, m[1], m[2], NoPromotion, keep)

\* the next-state relation with the MOVE messages drawn from the set M of <<from, to>>
NextOn(M) ==
    \/ \E c \in Conns, roomId \in RoomIds, hubbyIsWhite \in BOOLEAN :
            Connect(c, roomId, hubbyIsWhite)
    \/ \E c \in Conns : Close(c)
    \/ \E c \in Conns : Reset(c)
    \/ \E c \in Conns, m \in M : Move(c, m[1], m[2])

\* the same for one uninterrupted game: nobody disconnects or resets
NextGame(M) ==
    \/ \E c \in Conns, roomId \in RoomIds, hubbyIsWhite \in BOOLEAN :
            Connect(c, roomId, hubbyIsWhite)
    \/ \E c \in Conns, m \in M : Move(c, m[1], m[2])

\* the next-state relation of the games that follow the script S
NextScript(S, keep) ==
    \/ \E c \in Conns, roomId \in RoomIds, hubbyIsWhite \in BOOLEAN :
            Connect(c, roomId, hubbyIsWhite)
    \/ \E c \in Conns : Close(c)
    \/ \E c \in Conns : Reset(c)
    \/ \E c \in Conns : Follow(c, S, keep)

-----------------------------------------------------------------------------
(* MOVE messages of the main specification:                                *)
(*   1. e4 f6 2. e5 g5 3. Qh5#                                             *)
(*   1. e4 f6 2. Qh5+ a6                                                   *)
(* and a king's two-file move that is never legal in these games           *)

OpeningMoves ==
    {<<52, 36>>, <<36, 28>>, <<59, 31>>,
     <<13, 21>>, <<14, 30>>, <<8, 16>>, <<60, 62>>}

Next == NextOn(OpeningMoves)

Spec == Init /\ [][Next]_vars

-----------------------------------------------------------------------------
(* MOVE messages of the en passant games:                                  *)
(*   1. e4 a6 2. e5 d5 3. exd6 e.p.                                        *)
(*   1. e4 a6 2. e5 d5 3. h3 h6 4. exd6 (rejected)                         *)

EnPassantMoves ==
    {<<52, 36>>, <<36, 28>>, <<28, 19>>, <<55, 47>>,
     <<8, 16>>, <<11, 27>>, <<15, 23>>}

NextEnPassant == NextOn(EnPassantMoves)

SpecEnPassant == Init /\ [][NextEnPassant]_vars

-----------------------------------------------------------------------------
(* MOVE messages of the castling games:                                    *)
(*   1. g4 b6 2. Bh3 Bb7 3. Nf3 h6 4. Nh4 Bxh1 5. Ke1-g1                   *)
(*   1. g4 b6 2. Bh3 Ba6 3. Nf3 h6 4. e3 h5 5. Ke1-g1                      *)

CastleMoves ==
    {<<54, 38>>, <<61, 47>>, <<62, 45>>, <<45, 39>>, <<52, 44>>, <<60, 62>>,
     <<9, 17>>, <<2, 9>>, <<2, 16>>, <<9, 63>>, <<15, 23>>, <<23, 31>>}

NextCastle == NextGame(CastleMoves)

SpecCastle == Init /\ [][NextCastle]_vars

-----------------------------------------------------------------------------
(* MOVE messages of the game that ends with a pawn's double step giving    *)
(* check to a king whose only way out is the capture en passant:           *)
(*   1. e4 a5 2. Nc3 a4 3. Nb5 d6 4. Nd4 Kd7 5. Nf5 Kc6 6. Ne3 Kb5         *)
(*   7. Nd5 Ka5 8. b4+ (8... axb3 e.p.)                                    *)

EnPassantMateMoves ==
    {<<52, 36>>, <<57, 42>>, <<42, 25>>, <<25, 35>>, <<35, 29>>, <<29, 44>>,
     <<44, 27>>, <<49, 33>>,
     <<8, 24>>, <<24, 32>>, <<11, 19>>, <<4, 11>>, <<11, 18>>, <<18, 25>>,
     <<25, 24>>, <<32, 41>>}

NextEnPassantMate == NextGame(EnPassantMateMoves)

SpecEnPassantMate == Init /\ [][NextEnPassantMate]_vars

-----------------------------------------------------------------------------
(* MOVE messages of the promotion game, each sent with and without a       *)
(* promotion kind:                                                         *)
(*   1. a4 h6 2. a5 h5 3. a6 h4 4. axb7 h3 5. bxa8                         *)

PromotionMoves ==
    {<<48, 32>>, <<32, 24>>, <<24, 16>>, <<16, 9>>, <<9, 0>>,
     <<15, 23>>, <<23, 31>>, <<31, 39>>, <<39, 47>>}

PromotionKinds == {NoPromotion, "N"}

NextPromotion ==
    \/ \E c \in Conns, roomId \in RoomIds, hubbyIsWhite \in BOOLEAN :
            Connect(c, roomId, hubbyIsWhite)
    \/ \E c \in Conns, m \in PromotionMoves, k \in PromotionKinds :
            Promote(c, m[1], m[2], k)

SpecPromotion == Init /\ [][NextPromotion]_vars

-----------------------------------------------------------------------------
(* MOVE messages of the game in which a king is captured:                  *)
(*   1. e4 f6 2. Qh5+ a6 3. Qxe8                                           *)

KingCaptureMoves ==
    {<<52, 36>>, <<59, 31>>, <<31, 4>>, <<13, 21>>, <<8, 16>>}

NextKingCapture == NextOn(KingCaptureMoves)

SpecKingCapture == Init /\ [][NextKingCapture]_vars

-----------------------------------------------------------------------------
(* MOVE messages whose from or to is no square of the board: the rook a1   *)
(* to index 64 and back from there, the knight b8 to index -16; with them  *)
(* the moves 1. e3 a6                                                      *)

OffBoardMoves ==
    {<<56, 64>>, <<64, 56>>, <<52, 44>>, <<1, -16>>, <<8, 16>>}

NextOffBoard == NextOn(OffBoardMoves)

SpecOffBoard == Init /\ [][NextOffBoard]_vars

-----------------------------------------------------------------------------
(* The knights go out and back: Nf3 Nf6 Ng1 Ng8, again and again           *)

KnightShuffle == <<<<62, 45>>, <<6, 21>>, <<45, 62>>, <<21, 6>>>>

\* 1. Nf3 Nf6 2. Ng1 Ng8 3. Nf3 ... with the positions recorded
RepetitionScript == [p \in 1..MaxPly |-> {KnightShuffle[((p - 1) % 4) + 1]}]

NextRepetition == NextScript(RepetitionScript, TRUE)

SpecRepetition == Init /\ [][NextRepetition]_vars

\* 1. e4 a6 and then the knights for FiftyMovePlies moves
FiftyMoveScript ==
    [p \in 1..(FiftyMovePlies + 2) |->
        IF p = 1 THEN {<<52, 36>>}
        ELSE IF p = 2 THEN {<<8, 16>>}
        ELSE {KnightShuffle[((p - 3) % 4) + 1]}]

NextFiftyMove == NextScript(FiftyMoveScript, FALSE)

SpecFiftyMove == Init /\ [][NextFiftyMove]_vars

-----------------------------------------------------------------------------
(* MOVE messages of the games in which the king walks to f3 and is then    *)
(* sent two files to the right, with the queen at home or gone from d1:    *)
(*   1. e4 a6 2. Ke2 a5 3. Kf3 a4 4. Kf3-h3                                *)
(*   1. e4 a6 2. Qg4 a5 3. Ke2 a4 4. Kf3 a3 5. Kf3-h3                      *)

WalkMoves ==
    {<<52, 36>>, <<59, 38>>, <<60, 52>>, <<52, 45>>, <<45, 47>>,
     <<8, 16>>, <<16, 24>>, <<24, 32>>, <<32, 40>>}

NextWalk == NextGame(WalkMoves)

SpecWalk == Init /\ [][NextWalk]_vars

-----------------------------------------------------------------------------
(* MOVE messages of a game that the server accepts move by move and that   *)
(* ends with king and bishop against king (squares as file and rank):      *)
(*   1. f2f4 g8f6 2. b2b4 b8a6 3. e2e4 f6e4 4. f1a6 e4d2 5. d1d2 e7e5       *)
(*   6. d2d7 e8d7 7. a6b7 f8b4 8. b7c8 e5f4 9. c1f4 b4c5 10. f4c7 c5g1      *)
(*   11. c7d8 g1h2 12. h1h2 h8g8 13. h2h7 d7e6 14. h7g7 g8g7                *)
(*   15. b1c3 g7g2 16. c3b5 g2c2 17. b5a7 a8a7 18. e1f2 c2a2                *)
(*   19. a1a2 a7a2 20. f2g3 a2d2 21. c8b7 d2f2 22. g3f2 f7f6                *)
(*   23. d8f6 e6f5 24. f2g2 f5f6                                            *)

EndgameScript ==
    <<{<<53, 37>>}, {<<6, 21>>}, {<<49, 33>>}, {<<1, 16>>},
      {<<52, 36>>}, {<<21, 36>>}, {<<61, 16>>}, {<<36, 51>>},
      {<<59, 51>>}, {<<12, 28>>}, {<<51, 11>>}, {<<4, 11>>},
      {<<16, 9>>}, {<<5, 33>>}, {<<9, 2>>}, {<<28, 37>>},
      {<<58, 37>>}, {<<33, 26>>}, {<<37, 10>>}, {<<26, 62>>},
      {<<10, 3>>}, {<<62, 55>>}, {<<63, 55>>}, {<<7, 6>>},
      {<<55, 15>>}, {<<11, 20>>}, {<<15, 14>>}, {<<6, 14>>},
      {<<57, 42>>}, {<<14, 54>>}, {<<42, 25>>}, {<<54, 50>>},
      {<<25, 8>>}, {<<0, 8>>}, {<<60, 53>>}, {<<50, 48>>},
      {<<56, 48>>}, {<<8, 48>>}, {<<53, 46>>}, {<<48, 51>>},
      {<<2, 9>>}, {<<51, 53>>}, {<<46, 53>>}, {<<13, 21>>},
      {<<3, 21>>}, {<<20, 29>>}, {<<53, 54>>}, {<<29, 21>>}>>

NextEndgame == NextScript(EndgameScript, FALSE)

SpecEndgame == Init /\ [][NextEndgame]_vars

-----------------------------------------------------------------------------
(* Two rooms side by side: req.url names the room, 'default' if it names   *)
(* none. Hubby draws White in both rooms. MOVE messages: 1. e4            *)

TwoRooms == {"default", "other"}

RoomsMoves == {<<52, 36>>}

\* at most this many connections at a time over the two rooms
MaxRoomsConns == 2

NextRooms ==
    \/ \E c \in 1..MaxRoomsConns, roomId \in TwoRooms : Connect(c, roomId, TRUE)
    \/ \E c \in Conns : Close(c)
    \/ \E c \in Conns : Reset(c)
    \/ \E c \in Conns, m \in RoomsMoves : Move(c, m[1], m[2])

SpecRooms == Init /\ [][NextRooms]_vars

-----------------------------------------------------------------------------
(* Vocabulary of the properties *)

\* the rooms that exist before and after a step
Kept == DOMAIN rooms \cap DOMAIN rooms'

Played(r) == hist[r].ply > 0

Terminal(room) == room.winner # NoWinner \/ room.isDraw

\* the step is an accepted MOVE / a RESET in room r
AcceptedIn(r) == hist'[r].ply = hist[r].ply + 1

ResetIn(r) == hist'[r].resets = hist[r].resets + 1

\* the accepted move m is a king's move of two files along its rank
IsCastling(m) ==
    m.piece[2] = "K" /\ Row(m.from) = Row(m.to) /\ Abs(Col(m.to) - Col(m.from)) = 2

WingOf(m) == IF Col(m.to) > Col(m.from) THEN "king" ELSE "queen"

\* the accepted move m is a pawn's diagonal step onto an empty square
IsEnPassant(m) ==
    m.piece[2] = "P" /\ Col(m.from) # Col(m.to) /\ m.target = Null

\* with the king of `color` standing on sq instead of `from`, it is attacked
AttackedOn(game, from, sq, color) ==
    isKingInCheck(IF sq = from THEN game.board ELSE simulateMove(game.board, from, sq),
                  color, game)

\* the side to move has a move that is pseudo-legal and leaves its king
\* unattacked on the board the move executor produces
HasRealEscape(room) ==
    \E i \in Squares :
        /\ Truthy(Get(room.board, i))
        /\ Get(room.board, i)[1] = room.turn
        /\ \E j \in Squares :
              /\ isMoveLegal(i, j, room.board, room.turn, room)
              /\ ~isKingInCheck(MoveBoard(room, room.turn, i, j), room.turn, room)

\* the squares of the board that hold the piece
SquaresOf(board, piece) == {i \in DOMAIN board : board[i] = piece}

\* the start of a game of chess, square by square
CanonicalStart ==
    [board |-> [i \in Squares |->
                  CASE i \in {0, 7} -> <<"b", "R">>
                    [] i \in {1, 6} -> <<"b", "N">>
                    [] i \in {2, 5} -> <<"b", "B">>
                    [] i = 3 -> <<"b", "Q">>
                    [] i = 4 -> <<"b", "K">>
                    [] i \in 8..15 -> <<"b", "P">>
                    [] i \in 48..55 -> <<"w", "P">>
                    [] i \in {56, 63} -> <<"w", "R">>
                    [] i \in {57, 62} -> <<"w", "N">>
                    [] i \in {58, 61} -> <<"w", "B">>
                    [] i = 59 -> <<"w", "Q">>
                    [] i = 60 -> <<"w", "K">>
                    [] OTHER -> Null],
     turn |-> "w",
     movedPieces |-> {},
     enPassantTarget |-> -1,
     winner |-> NoWinner,
     isDraw |-> FALSE]

\* how often the k-th position of the sequence has occurred up to there
Occurrences(positions, k) ==
    Cardinality({j \in 1..k : positions[j] = positions[k]})

\* the occupied squares of the board
Occupied(board) == {i \in DOMAIN board : Truthy(board[i])}

\* the board holds the two kings and the pieces of `others`, a set of kinds
\* of which it holds one piece each, and nothing else
KingsAnd(board, others) ==
    /\ Cardinality(Occupied(board)) = 2 + Cardinality(others)
    /\ \A color \in {"w", "b"} : SquaresOf(board, <<color, "K">>) # {}
    /\ \A kind \in others : \E i \in Occupied(board) : board[i][2] = kind

-----------------------------------------------------------------------------
(* Properties *)

\* C1: no accepted move ends with the mover's own king attacked by the
\* opponent (a move that would leave it attacked is rejected).
C1_NoSelfCheck ==
    \A r \in DOMAIN rooms :
        Played(r) => ~isKingInCheck(rooms[r].board, hist[r].last.color, rooms[r])

\* C2: after every accepted move the winner is the mover exactly when the
\* side to move is attacked and has no move that leaves its king unattacked
\* on the board the executor would produce; the game is drawn exactly when
\* it has no such move and is not attacked; otherwise neither is set.
C2_Outcome ==
    \A r \in DOMAIN rooms :
        Played(r) =>
            LET room == rooms[r]
                attacked == isKingInCheck(room.board, room.turn, room)
                trapped == ~HasRealEscape(room)
            IN  /\ room.winner = (IF attacked /\ trapped THEN hist[r].last.role ELSE NoWinner)
                /\ room.isDraw = (~attacked /\ trapped)

\* C3: once a room has a winner or is drawn, no step other than a RESET
\* changes board, turn, movedPieces, enPassantTarget, winner or isDraw:
\* every later MOVE is without effect.
C3_TerminalStays ==
    [][\A r \in Kept :
          (Terminal(rooms[r]) /\ ~ResetIn(r)) => GameOf(rooms'[r]) = GameOf(rooms[r])]_vars

\* a MOVE was handled, and rejected, in a room that has a winner
C3_Witness ==
    \E r \in DOMAIN rooms : rooms[r].winner # NoWinner /\ hist[r].rejected

\* C4: a MOVE that is not accepted leaves board, turn, movedPieces,
\* enPassantTarget, winner and isDraw as they were.
C4_RejectedNoChange ==
    [][\A r \in Kept :
          (hist'[r].rejected /\ ~AcceptedIn(r) /\ ~ResetIn(r))
              => GameOf(rooms'[r]) = GameOf(rooms[r])]_vars

\* a MOVE was rejected in the middle of a game that is still open
C4_Witness ==
    \E r \in DOMAIN rooms : Played(r) /\ hist[r].rejected /\ ~Terminal(rooms[r])

\* C5: an accepted move hands the turn to the other colour, and the turn
\* changes in no other way, except that RESET sets it to White.
C5_TurnAlternates ==
    [][\A r \in Kept :
          /\ AcceptedIn(r) => rooms'[r].turn = Enemy(rooms[r].turn)
          /\ rooms'[r].turn # rooms[r].turn
                => AcceptedIn(r) \/ (ResetIn(r) /\ rooms'[r].turn = "w")]_vars

\* both colours have moved and White is to move again
C5_Witness ==
    \E r \in DOMAIN rooms :
        hist[r].ply >= 2 /\ hist[r].last.before.turn = "b" /\ rooms[r].turn = "w"

\* C6: every accepted move relocates a piece of the side to move and was
\* sent by a connection whose assigned colour is that side (so never by the
\* off-turn player, never by an Observer).
C6_MoverOwnsTurn ==
    \A r \in DOMAIN rooms :
        Played(r) =>
            LET m == hist[r].last
            IN  /\ m.piece[1] = m.before.turn
                /\ m.color = m.before.turn
                /\ m.role \in {"Hubby", "Wiifu"}
                /\ rooms[r].roles[m.role] = m.before.turn
                /\ Get(rooms[r].board, m.from) = Null
                /\ Get(rooms[r].board, m.to)[1] = m.before.turn

\* a move was accepted, and after it a MOVE was rejected with an Observer connected
C6_Witness ==
    \E r \in DOMAIN rooms :
        /\ Played(r)
        /\ hist[r].rejected
        /\ \E c \in DOMAIN conns : conns[c].roomId = r /\ conns[c].myRole = "Observer"

\* C7: no castling move is accepted for a colour and wing whose right was
\* given up earlier in the game (king moved, rook moved away or captured).
C7_NoCastleAfterLoss ==
    \A r \in DOMAIN rooms :
        (Played(r) /\ IsCastling(hist[r].last))
            => <<hist[r].last.color, WingOf(hist[r].last)>> \notin hist[r].last.lostBefore

\* C8: a castling move is accepted only if none of the king's start square,
\* the square it crosses and its destination is attacked by the opponent.
C8_CastleSquaresSafe ==
    \A r \in DOMAIN rooms :
        (Played(r) /\ IsCastling(hist[r].last)) =>
            LET m == hist[r].last
            IN  \A sq \in {m.from, (m.from + m.to) \div 2, m.to} :
                    ~AttackedOn(m.before, m.from, sq, m.color)

\* C9: a pawn's diagonal move onto an empty square is accepted only when
\* the move accepted just before it was a pawn's two-square advance over
\* that square.
C9_EnPassantWindow ==
    \A r \in DOMAIN rooms :
        (Played(r) /\ IsEnPassant(hist[r].last))
            => hist[r].last.prevDouble = hist[r].last.to

\* a capture en passant was accepted
C9_Witness ==
    \E r \in DOMAIN rooms :
        /\ Played(r)
        /\ IsEnPassant(hist[r].last)
        /\ Get(rooms[r].board, hist[r].last.to) = hist[r].last.piece

\* C10: after every accepted move enPassantTarget is the square passed
\* over if the move was a pawn's two-square advance and -1 otherwise; after
\* e2-e4 from the start the pawn is on e4, the target is e3, Black is to
\* move and the game is neither won nor drawn.
C10_TargetAfterMove ==
    \A r \in DOMAIN rooms :
        Played(r) =>
            LET m == hist[r].last
                room == rooms[r]
            IN  /\ room.enPassantTarget = m.double
                /\ (m.before.board = initialChessBoard /\ m.from = 52 /\ m.to = 36)
                      => /\ room.board[36] = <<"w", "P">>
                         /\ room.board[52] = Null
                         /\ room.enPassantTarget = 44
                         /\ room.turn = "b"
                         /\ room.winner = NoWinner
                         /\ ~room.isDraw

\* e2-e4 was accepted as the first move of a game
C10_Witness ==
    \E r \in DOMAIN rooms :
        /\ hist[r].ply = 1
        /\ hist[r].last.from = 52
        /\ hist[r].last.to = 36
        /\ rooms[r].enPassantTarget = 44

\* C11: when an accepted pawn move reaches the farthest rank, the piece on
\* the destination is a Queen of the mover's colour if the message names no
\* promotion kind and a Knight of the mover's colour if it names Knight.
C11_Promotion ==
    \A r \in DOMAIN rooms :
        (Played(r) /\ hist[r].last.piece[2] = "P" /\ Row(hist[r].last.to) \in {0, 7}) =>
            LET m == hist[r].last
            IN  Get(rooms[r].board, m.to)
                    = <<m.color, IF m.promotion = "N" THEN "N" ELSE "Q">>

\* C12: in every reachable room state the board holds exactly one king of
\* each colour.
C12_OneKingEach ==
    \A r \in DOMAIN rooms :
        \A color \in {"w", "b"} :
            Cardinality(SquaresOf(rooms[r].board, <<color, "K">>)) = 1

\* C13: a MOVE whose from or to is not one of the 64 squares is never
\* accepted: the board keeps exactly the 64 squares and every accepted move
\* goes from a square to a square.
C13_OnBoardOnly ==
    \A r \in DOMAIN rooms :
        /\ DOMAIN rooms[r].board = Squares
        /\ Played(r) => (hist[r].last.from \in Squares /\ hist[r].last.to \in Squares)

\* C14: a newly created room, and a room right after any RESET (whatever
\* its state, whoever sent it), is in the canonical start state: standard
\* board, White to move, no square marked as moved, no en-passant target, no
\* winner, not drawn; RESET leaves the Hubby/Wiifu colours as they were.
C14_StartState ==
    [][\A r \in DOMAIN rooms' :
          /\ r \notin DOMAIN rooms => GameOf(rooms'[r]) = CanonicalStart
          /\ (r \in DOMAIN rooms /\ ResetIn(r))
                => /\ GameOf(rooms'[r]) = CanonicalStart
                   /\ rooms'[r].roles = rooms[r].roles]_vars

\* a room in which Hubby plays Black has been reset and is at the start again
C14_Witness ==
    \E r \in DOMAIN rooms :
        /\ hist[r].resets > 0
        /\ hist[r].ply = 0
        /\ rooms[r].roles.Hubby = "b"
        /\ GameOf(rooms[r]) = CanonicalStart

\* C15: after an accepted move that leaves only the two kings, or the two
\* kings and a single bishop, the game is drawn; with the two kings and a
\* single rook it is drawn only if the side to move has no move (not for
\* want of material).
C15_InsufficientMaterial ==
    \A r \in DOMAIN rooms :
        Played(r) =>
            LET room == rooms[r]
            IN  /\ KingsAnd(room.board, {}) => room.isDraw
                /\ KingsAnd(room.board, {"B"}) => room.isDraw
                /\ (KingsAnd(room.board, {"R"}) /\ room.isDraw)
                      => ~hasLegalEscapes(room.board, room.turn, room)

\* C16: the half-move clock is 0 after an accepted pawn move or capture and
\* one more after every other accepted move; once it has reached 100 the
\* game is drawn.
C16_FiftyMoveDraw ==
    \A r \in DOMAIN rooms :
        hist[r].clock >= 100 => rooms[r].isDraw

\* C17: when the accepted moves bring about the same position (board, side
\* to move, castling rights, en-passant target) for the third time the game
\* is drawn, and no move is accepted after that.
C17_RepetitionDraw ==
    \A r \in DOMAIN rooms :
        LET positions == hist[r].positions
        IN  \A k \in 1..Len(positions) :
                Occurrences(positions, k) >= 3
                    => (k = Len(positions) /\ rooms[r].isDraw)

\* C18: every call of isPathClear made while a MOVE is handled has from and
\* to on the same rank, file or diagonal.
C18_CallsAligned ==
    \A r \in DOMAIN rooms : ~hist[r].stray

\* C19: the handling of every MOVE comes to an end: the server never hangs
\* on a move proposal.
C19_MoveTerminates == ~hung

\* C20: when a pawn's accepted move is a diagonal step onto the en-passant
\* target, exactly one other piece leaves the board: the opposing pawn on
\* the destination's file and the origin's rank; the pawn stands on the
\* destination, the origin is empty and every other square is unchanged.
C20_EnPassantCapture ==
    \A r \in DOMAIN rooms :
        LET m == hist[r].last
            board == rooms[r].board
            victim == Row(m.from) * 8 + Col(m.to)
        IN  (/\ Played(r)
             /\ m.piece[2] = "P"
             /\ Col(m.from) # Col(m.to)
             /\ m.to = m.before.enPassantTarget)
                => /\ DOMAIN board = DOMAIN m.before.board
                   /\ m.before.board[victim] = <<Enemy(m.color), "P">>
                   /\ board[victim] = Null
                   /\ board[m.to] = m.piece
                   /\ board[m.from] = Null
                   /\ \A sq \in DOMAIN board \ {m.from, m.to, victim} :
                         board[sq] = m.before.board[sq]

\* the white pawn has taken the black d-pawn en passant: it stands on d6 and
\* d5 is empty
C20_Witness ==
    \E r \in DOMAIN rooms :
        /\ Played(r)
        /\ hist[r].last.from = 28
        /\ hist[r].last.to = 19
        /\ hist[r].last.before.enPassantTarget = 19
        /\ rooms[r].board[19] = <<"w", "P">>
        /\ rooms[r].board[27] = Null

\* C21: every accepted castling move ends with the king two files from its
\* origin, a rook of the mover's colour on the square the king crossed and
\* that rook's home corner empty; the piece relocated with the king is the
\* mover's own rook, which had not moved from its corner.
C21_CastlingRook ==
    \A r \in DOMAIN rooms :
        (Played(r) /\ IsCastling(hist[r].last)) =>
            LET m == hist[r].last
                board == rooms[r].board
                home == RookHome(m.color, WingOf(m))
            IN  /\ board[m.to] = <<m.color, "K">>
                /\ Abs(Col(m.to) - Col(m.from)) = 2
                /\ board[(m.from + m.to) \div 2] = <<m.color, "R">>
                /\ board[home] = Null
                /\ m.before.board[home] = <<m.color, "R">>
                /\ home \notin m.before.movedPieces


-----------------------------------------------------------------------------
(* Connections and roles *)

PlayerRoles == {"Hubby", "Wiifu"}

\* the connected clients of room r that hold the role
Holders(r, role) == {c \in DOMAIN rooms[r].clients : rooms[r].clients[c] = role}

\* C22: whatever the order of connections and disconnections in a room, at
\* most one connected client at a time holds each player role (Hubby, Wiifu),
\* and so each colour.
C22_OneClientPerRole ==
    \A r \in DOMAIN rooms :
        /\ \A role \in PlayerRoles : Cardinality(Holders(r, role)) <= 1
        /\ \A color \in {"w", "b"} :
                Cardinality({c \in DOMAIN rooms[r].clients :
                                conns[c].myColor = color}) <= 1


\* the connections that were assigned the Observer role
Observers == {c \in DOMAIN conns : conns[c].myRole = "Observer"}

\* the step handles a message (RESET, or a MOVE of the main specification)
\* sent by connection c
MessageFrom(c) ==
    \/ Reset(c)
    \/ \E m \in OpeningMoves : Move(c, m[1], m[2])

\* C23: a message from a connection that was assigned the Observer role never
\* changes the game state of its room: board, turn, movedPieces,
\* enPassantTarget, winner and isDraw are after it what they were before it.
C23_ObserverChangesNothing ==
    [][\A c \in Observers :
            MessageFrom(c) =>
                GameOf(rooms'[conns[c].roomId]) = GameOf(rooms[conns[c].roomId])]_vars


-----------------------------------------------------------------------------
(* Rooms *)

\* the step is a connection to room q, or a disconnection or a message
\* (RESET or MOVE) of a connection of room q
StepIn(q) ==
    \E c \in Conns :
        \/ Connect(c, q, TRUE)
        \/ /\ c \in DOMAIN conns
           /\ conns[c].roomId = q
           /\ \/ Close(c)
              \/ Reset(c)
              \/ \E m \in RoomsMoves : Move(c, m[1], m[2])

\* a room created or reset by the step starts from the initial position
FreshIn(r) ==
    (r \in DOMAIN rooms' /\ (r \notin DOMAIN rooms \/ ResetIn(r)))
        => GameOf(rooms'[r]) = CanonicalStart

\* C24: rooms are independent. A connection, a disconnection or a message
\* (MOVE or RESET) in one room leaves every other room in place with its
\* board, turn, movedPieces, enPassantTarget, winner and isDraw unchanged (a
\* room that goes away or whose game changes is the room of the step), and
\* leaves the shared initial board as it was: a room created or reset by the
\* step starts from the initial position whatever the other rooms have played.
C24_RoomsIndependent ==
    [][/\ \A r \in DOMAIN rooms :
            \/ r \in DOMAIN rooms' /\ GameOf(rooms'[r]) = GameOf(rooms[r])
            \/ \A q \in TwoRooms \ {r} : ~StepIn(q)
       /\ \A r \in TwoRooms : FreshIn(r)]_vars

\* two rooms exist: one was reset and stands at the start, while the game
\* of the other is in progress
C24_Witness ==
    \E q \in DOMAIN rooms, r \in DOMAIN rooms :
        /\ q # r
        /\ hist[q].resets > 0
        /\ GameOf(rooms[q]) = CanonicalStart
        /\ Played(r)
        /\ GameOf(rooms[r]) # CanonicalStart

=============================================================================
